---- MODULE Spec2Model ----
(***************************************************************************)
(* Playback-session model of the MF_Player scripts.                        *)
(*                                                                         *)
(* Three variants of the player are modelled, chosen in Init:              *)
(*   "beta"    src/MF_Player_Beta.py   STATE global, end-of-track callback *)
(*             that sets a flag, input thread feeding CMD_QUEUE            *)
(*   "cli"     src/cli.py + playlist.py + player.py + util.py              *)
(*             blocking input(), `pl` rescan                               *)
(*   "onefile" src/MF_Player_ALPHA.py (second half: Playlist,              *)
(*             MFPlayerCore, cli_loop), callback that advances itself      *)
(*                                                                         *)
(* A command is the sequence of tokens of the line the user typed, after   *)
(* strip().lower().split().  A track is a positive number (its path);      *)
(* paths sort as their numbers do.                                         *)
(***************************************************************************)
EXTENDS Integers, Sequences, FiniteSets, TLC

\* ------------------------------------------------------------------ bounds
MaxTracks == 3      \* most media files a folder holds
MaxQueue  == 1      \* most typed lines waiting in CMD_QUEUE
MaxCount  == 4      \* highest count the run counters keep

\* --------------------------------------------------------------- variables
VARIABLES
    variant,            \* which script runs
    alphabet,           \* the lines the user may type in this run
    files,              \* the playlist: files (beta, cli), Playlist.items (onefile)
    current,            \* the index: local `current` (beta, cli), Playlist.index (onefile)
    repeat,             \* MFPlayerCore.repeat (onefile)
    State,              \* beta's STATE dict: current, repeat, ended, next_index
    CMD_QUEUE,          \* beta's queue of raw lines
    INPUT_THREAD_STOP,  \* beta's _INPUT_THREAD_STOP event
    inp,                \* position of beta's input thread
    pc,                 \* position of the main thread
    cb,                 \* the engine's callback thread: position and locals
    mt,                 \* onefile: the locals of the Playlist call the main thread is in
    player,             \* the libVLC media player
    log,                \* engine directives issued in the main loop's current iteration
                        \* (onefile: by the latest command or callback)
    last,               \* what the main loop's current iteration handled
    noted,              \* the index and repeat value STATE.next_index was computed from
    got,                \* `noted`, as it was when the ended flag was consumed in this iteration
    scanned,            \* what the scan at startup met: the folder there, the matches
    rc,                 \* onefile: the Playlist calls of the two threads that overlap
    hist                \* what has happened so far, as far as the properties need it

conf  == <<variant, alphabet>>
thr   == <<CMD_QUEUE, INPUT_THREAD_STOP, inp, mt, rc>>
notes == <<noted, got>>
vars  == <<variant, alphabet, files, current, repeat, State, CMD_QUEUE,
           INPUT_THREAD_STOP, inp, pc, cb, mt, player, log, last, noted, got, scanned,
           rc, hist>>

\* ------------------------------------------------------------ pure helpers
Min(a, b) == IF a < b THEN a ELSE b
Max(a, b) == IF a > b THEN a ELSE b

\* a clamp that saturates at the ends of the playlist instead of wrapping round
clamp_index_saturating(index, n) ==
    IF n <= 0 THEN 0 ELSE IF index >= n THEN n - 1 ELSE IF index < 0 THEN 0 ELSE index
\* a clamp that takes the remainder of the magnitude, as a truncating % would suggest
clamp_index_magnitude(index, n) ==
    IF n <= 0 THEN 0 ELSE IF index < 0 THEN (0 - index) % n ELSE index % n

\* playlist.clamp_index / MF_Player_Beta.clamp_index; Python's % is floored,
\* as TLA+'s is for a positive modulus.
clamp_index(index, n) == IF n <= 0 THEN 0 ELSE index % n

\* int(parts[1]): the tokens that parse, and their values; every other token raises.
IntOf == [t \in {"150", "-10", "50", "0", "1", "2", "3", "7"} |->
            CASE t = "150" -> 150 [] t = "-10" -> 0 - 10 [] t = "50" -> 50
              [] t = "0" -> 0 [] t = "1" -> 1 [] t = "2" -> 2 [] t = "3" -> 3
              [] t = "7" -> 7]
IsInt(t) == t \in DOMAIN IntOf

\* list.sort() of a set of distinct paths
RECURSIVE SortedSeq(_)
SortedSeq(S) ==
    IF S = {} THEN <<>>
    ELSE LET m == CHOOSE x \in S : \A y \in S : x <= y
         IN  <<m>> \o SortedSeq(S \ {m})

\* ------------------------------------------------------------- the folder
ALLOWED_EXT_Beta == {".mp3", ".wav", ".flac", ".ogg", ".mp4"}
ALLOWED_EXT_Cli  == {".mp3", ".wav", ".flac", ".ogg", ".mp4", ".m4a"}

ExtCycle == <<".mp3", ".wav", ".flac", ".ogg", ".mp4">>
MediaEntry(i) == [id |-> i, ext |-> ExtCycle[((i - 1) % 5) + 1], isfile |-> TRUE]
\* what else a folder may hold: a text file, and a directory named like a track
Junk == { [id |-> MaxTracks + 1, ext |-> ".txt", isfile |-> TRUE],
          [id |-> MaxTracks + 2, ext |-> ".mp3", isfile |-> FALSE] }

\* the folders a scan may meet: absent, or holding the first n tracks, with or without junk
Folders ==
    { [exists |-> FALSE, entries |-> {}] } \cup
    { [exists |-> TRUE, entries |-> { MediaEntry(i) : i \in 1..n } \cup j] :
        n \in 0..MaxTracks, j \in {{}, Junk} }

\* the listdir loop and sort of find_media_files
ScanFolder(folder, allowed) ==
    SortedSeq({ e.id : e \in { x \in folder.entries : x.isfile /\ x.ext \in allowed } })

\* a startup scan that forgets the empty test
MustExit_missing(exists, found) == ~exists
\* find_media_files (beta) and cli.main: the run ends with sys.exit(1) when the folder
\* is missing or no file in it matches
MustExit(exists, found) == ~exists \/ found = <<>>

\* ------------------------------------------------------------ the engine
NoMedia == 0
NewPlayer == [created |-> TRUE, state |-> "NothingSpecial", media |-> NoMedia,
              volume |-> 100, mute |-> FALSE]
NoPlayer  == [created |-> FALSE, state |-> "NothingSpecial", media |-> NoMedia,
              volume |-> 100, mute |-> FALSE]

\* a set_media that leaves the engine's state as it was
P_set_media_keeping(p, m) == [p EXCEPT !.media = m]
\* player.set_media(media): the running input is released
P_set_media(p, m) == [p EXCEPT !.media = m, !.state = "NothingSpecial"]
\* player.play(): the states it may leave the player in.  An ended input ignores
\* the play message in some libVLC builds and restarts in others.
P_play(p) ==
    IF p.media = NoMedia THEN {p}
    ELSE IF p.state = "Ended" THEN {p, [p EXCEPT !.state = "Playing"]}
    ELSE {[p EXCEPT !.state = "Playing"]}
\* a pause that only ever pauses, as set_pause(1) does
P_pause_only(p) ==
    IF p.state = "Playing" THEN [p EXCEPT !.state = "Paused"] ELSE p
\* player.pause(): a toggle between Playing and Paused, nothing otherwise
P_pause(p) ==
    IF p.state = "Playing" THEN [p EXCEPT !.state = "Paused"]
    ELSE IF p.state = "Paused" THEN [p EXCEPT !.state = "Playing"]
    ELSE p
\* a stop that leaves the engine as it was
P_stop_idle(p) == p
\* player.stop()
P_stop(p) == [p EXCEPT !.state = "Stopped"]
\* player.audio_set_volume(v)
P_set_volume(p, v) == [p EXCEPT !.volume = v]
\* a mute that also toggles the pause
P_set_mute_pausing(p, b) == [P_pause(p) EXCEPT !.mute = b]
\* player.audio_set_mute(b)
P_set_mute(p, b) == [p EXCEPT !.mute = b]

\* one directive in the log: what was called, with what, by which thread, and
\* whether the call returned (ok) or raised
D(op, arg, by, ok) == [op |-> op, arg |-> arg, by |-> by, ok |-> ok]

\* play_track(player, instance, path): media_new, set_media, play
play_track(p, path) == P_play(P_set_media(p, path))
PlayTrackLog(path, by, ok) == <<D("load", path, by, ok), D("play", 0, by, ok)>>


\* --------------------------------------------------- what the user may type
THREAD_EXIT == <<"__THREAD_EXIT__">>
NoneYet == <<"__none__">>
ENDED == <<"__ended__">>
\* not a line: the input stream closes (EOFError) or the user interrupts
EOF == <<"__eof__">>

NextCmds == {<<"next">>, <<"n">>}
PrevCmds == {<<"prev">>, <<"b">>, <<"back">>}

Variants == {"beta", "cli", "onefile"}

\* each run draws its lines from one of these
AlphabetsOf(v) ==
    IF v = "beta" THEN
        { {<<"next">>, <<"prev">>, <<"repeat">>},
          {<<"play">>, <<"pause">>, <<"stop">>, <<"exit">>, EOF},
          {<<"v", "150">>, <<"v", "-10">>, <<"v", "50">>, <<"v", "abc">>, <<"bogus">>,
           <<"volume">>},
          {<<"v+">>, <<"v-">>, <<"m">>, <<"repeat", "on">>} }
    ELSE IF v = "onefile" THEN
        { {<<"next">>, <<"prev">>, <<"repeat">>},
          {<<"next">>, <<"repeat">>, <<"del", "0">>, <<"del", "1">>},
          {<<"play">>, <<"pause">>, <<"stop">>, <<"quit">>, EOF},
          {<<"status">>, <<"repeat", "on">>, <<"repeat", "off">>, <<"exit">>},
          {<<"jump", "0">>, <<"jump", "2">>, <<"jump", "x">>, <<"del", "x">>, <<"pause">>,
           <<"stop">>},
          {<<"del", "0">>, <<"stop">>, <<"play">>, <<"jump", "0">>},
          {<<"shuffle">>, <<"add", "2">>, <<"add">>, <<"list">>} }
    ELSE
        { {<<"next">>, <<"prev">>, <<"pl">>},
          {<<"play">>, <<"pause">>, <<"stop">>, <<"exit">>, EOF},
          {<<"v", "150">>, <<"v", "-10">>, <<"v", "50">>, <<"v", "abc">>, <<"bogus">>},
          {<<"v+">>, <<"v-">>, <<"m">>, <<"volume">>, <<"v">>, <<"n">>} }

\* ------------------------------------------------------------ the history
\* run:  how many `next` (or `prev`) commands have been applied since the start, as
\*       long as nothing else has changed the index or the playlist ("void" after)
\* pz:   how many pause directives have acted in a row, the first of them on a
\*       playing engine, with the index and repeat value before the first
\* scen: how far the line stream v 150, v -10, v 50 has got, and the volume the
\*       engine held after each of its lines
\* np:   the play calls made since the last stop or pause call and the last end of
\*       a track: "none", "one", or "two" for more than one
HistInit ==
    [run  |-> [kind |-> "none", k |-> 0],
     pz   |-> [k |-> 0, cur |-> 0, rep |-> FALSE],
     scen |-> [k |-> 0, vols |-> <<>>],
     np   |-> "none"]

Void   == [kind |-> "void", k |-> 0]
NoPz   == [k |-> 0, cur |-> 0, rep |-> FALSE]
NoScen == [k |-> 0, vols |-> <<>>]
Scenario == << <<"v", "150">>, <<"v", "-10">>, <<"v", "50">> >>

\* the repeat mode of the running variant (cli has none)
Repeat == IF variant = "beta" THEN State.repeat ELSE repeat

Count(kind) ==
    IF hist.run.kind \in {"none", kind} /\ hist.run.k < MaxCount
    THEN [kind |-> kind, k |-> hist.run.k + 1]
    ELSE Void

\* np after one more engine call; a play that raised is not counted (the load before
\* it may have raised, and play not been called).  The callback's log holds one entry
\* for a pair of calls: "play" for its stop(); play(), "load" for its set_media; play().
AfterCall(np, d) ==
    IF d.op \in {"stop", "pause"} THEN "none"
    ELSE IF d.by = "cb" /\ d.op = "play" THEN "one"
    ELSE IF (d.op = "play" /\ d.ok) \/ (d.by = "cb" /\ d.op = "load")
    THEN IF np = "none" THEN "one" ELSE "two"
    ELSE np
\* np after the calls of l, in order
RECURSIVE InFlight(_, _)
InFlight(np, l) == IF l = <<>> THEN np ELSE InFlight(AfterCall(np, Head(l)), Tail(l))

\* the locals of a Playlist.next / prev / remove call: the index read, the index
\* computed, the argument
NoLocals == [op |-> "none", t |-> 0, v |-> 0]
\* no Playlist call in flight
NoOp == [kind |-> "none", arg |-> 0]
RcIdle == [st |-> "idle", s0 |-> [items |-> <<>>, index |-> 0], op |-> NoOp]
CbIdle == [pc |-> "idle", cur |-> 0, v |-> 0, nxt |-> 0]

\* nothing has run yet: no engine, no thread started, no line read
AtRest ==
    /\ repeat = FALSE
    /\ State = [current |-> 0, repeat |-> FALSE, ended |-> FALSE, next_index |-> 0]
    /\ CMD_QUEUE = <<>>
    /\ INPUT_THREAD_STOP = FALSE
    /\ inp = "off"
    /\ pc = "start"
    /\ cb = CbIdle
    /\ mt = NoLocals
    /\ rc = RcIdle
    /\ player = NoPlayer
    /\ log = <<>>
    /\ last = NoneYet
    /\ noted = [cur |-> 0, rep |-> FALSE]
    /\ got = [cur |-> 0, rep |-> FALSE]
    /\ scanned = [exists |-> FALSE, matches |-> 0]
    /\ hist = HistInit

Init ==
    /\ variant \in Variants
    /\ alphabet \in AlphabetsOf(variant)
    /\ files = <<>>
    /\ current = 0
    /\ AtRest

Running == pc \notin {"start", "fatal", "crashed", "done"}

\* a command has been handled: the last conjunct of every handler, reading what the
\* handler has set
Recorded ==
    hist' =
      [run  |-> IF last' \in NextCmds /\ files # <<>> THEN Count("next")
                ELSE IF last' \in PrevCmds /\ files # <<>> THEN Count("prev")
                ELSE IF current' # current \/ files' # files THEN Void
                ELSE hist.run,
       pz   |-> IF last' = <<"pause">> /\ log' # <<>> /\ log'[Len(log')].ok
                THEN IF hist.pz.k = 1 THEN [hist.pz EXCEPT !.k = 2]
                     ELSE IF player.state = "Playing"
                          THEN [k |-> 1, cur |-> current, rep |-> Repeat]
                          ELSE NoPz
                ELSE NoPz,
       scen |-> LET acted == log' # <<>> /\ log'[Len(log')].ok
                             /\ log'[Len(log')].op = "volume"
                    k == hist.scen.k
                IN  IF acted /\ k < Len(Scenario) /\ last' = Scenario[k + 1]
                    THEN [k |-> k + 1, vols |-> Append(hist.scen.vols, player'.volume)]
                    ELSE IF acted /\ last' = Scenario[1]
                    THEN [k |-> 1, vols |-> <<player'.volume>>]
                    ELSE NoScen,
       np   |-> InFlight(hist.np, log')]

\* something other than a command has changed the index
IndexMoved == hist' = [hist EXCEPT !.run = Void, !.pz = NoPz]
\* the calls a step outside the command handlers has made: all of the log the
\* callback leaves, what a play_track of the main thread has added to the log
Told ==
    IF /\ cb.pc \in {"e2r", "e6"} /\ log' # <<>> /\ log'[1].by = "cb"
       /\ (log' # log \/ player' # player)
    THEN log'
    ELSE IF Len(log') > Len(log) THEN SubSeq(log', Len(log) + 1, Len(log'))
    ELSE <<>>
\* the engine has acted of its own (a track has ended), or been told to play a track
EngineMoved ==
    hist' = [hist EXCEPT !.pz = NoPz,
                         !.np = IF player.state = "Playing" /\ player'.state = "Ended"
                                THEN "none" ELSE InFlight(hist.np, Told)]

\* one engine call inside try/except, after the handler's earlier ones: it acts, or
\* raises and is swallowed
Attempt(op, arg, after) ==
    \E ok \in BOOLEAN :
        /\ player' = IF ok THEN after ELSE player
        /\ log' = Append(log, D(op, arg, "main", ok))

\* the handler makes no engine call
Quiet == UNCHANGED <<player, log>>

\* ================================================================= beta
\* main(): find_media_files, create_vlc_player, STATE, event_attach, input thread,
\* then main_loop's first two lines
BetaMain ==
    /\ variant = "beta" /\ pc = "start"
    /\ \E folder \in Folders, created \in BOOLEAN :
         LET found == ScanFolder(folder, ALLOWED_EXT_Beta) IN
         /\ scanned' = [exists |-> folder.exists, matches |-> Len(found)]
         /\ IF MustExit(folder.exists, found)
            THEN /\ pc' = "fatal"
                 /\ UNCHANGED <<files, current, State, inp, player>>
            ELSE IF ~created
            THEN /\ pc' = "crashed"
                 /\ UNCHANGED <<files, current, State, inp, player>>
            ELSE /\ files' = found
                 /\ player' = NewPlayer
                 /\ current' = clamp_index(0, Len(found))
                 /\ State' = [current |-> clamp_index(0, Len(found)), repeat |-> FALSE,
                              ended |-> FALSE, next_index |-> 0]
                 /\ inp' = "input"
                 /\ pc' = "play"
    /\ UNCHANGED <<conf, repeat, CMD_QUEUE, INPUT_THREAD_STOP, mt, rc, cb, log, last, notes,
                   hist>>

\* main_loop, top of the outer loop: play_track(player, instance, files[current]);
\* a raise is caught nowhere in main_loop
BetaPlayTrack ==
    /\ variant = "beta" /\ pc = "play"
    /\ \E ok \in BOOLEAN :
         /\ IF ok
            THEN /\ player' \in play_track(player, files[current + 1])
                 /\ pc' = "check"
            ELSE /\ player' = player
                 /\ pc' = "raised"
         /\ log' = log \o PlayTrackLog(files[current + 1], "main", ok)
    /\ EngineMoved
    /\ UNCHANGED <<conf, files, current, repeat, State, thr, cb, last, notes, scanned>>

\* main_loop, top of the inner loop: the ended flag is consumed and the loop breaks
\* to the outer one, or the loop goes on to read the queue
BetaCheckEnded ==
    /\ variant = "beta" /\ pc = "check"
    /\ log' = <<>>
    /\ IF State.ended
       THEN /\ current' = clamp_index(State.next_index, Len(files))
            /\ State' = [State EXCEPT !.ended = FALSE,
                           !.current = clamp_index(State.next_index, Len(files))]
            /\ last' = ENDED
            /\ got' = noted
            /\ pc' = "play"
            /\ IndexMoved
       ELSE /\ last' = NoneYet
            /\ got' = [cur |-> 0, rep |-> FALSE]
            /\ pc' = "get"
            /\ UNCHANGED <<current, State, hist>>
    /\ UNCHANGED <<conf, files, repeat, thr, cb, player, noted, scanned>>

\* queue.get(timeout=0.5) raises queue.Empty: the loop goes round
BetaTimeout ==
    /\ variant = "beta" /\ pc = "get" /\ CMD_QUEUE = <<>>
    /\ pc' = "check"
    /\ UNCHANGED <<conf, files, current, repeat, State, thr, cb, player, log, last, notes,
                   scanned, hist>>

\* a get that hands out the newest line of the queue
BetaTakes_newest(cmd) ==
    /\ variant = "beta" /\ pc = "get" /\ CMD_QUEUE # <<>>
    /\ CMD_QUEUE[Len(CMD_QUEUE)] = cmd
    /\ CMD_QUEUE' = SubSeq(CMD_QUEUE, 1, Len(CMD_QUEUE) - 1)
    /\ last' = cmd
    /\ UNCHANGED <<conf, files, repeat, INPUT_THREAD_STOP, inp, mt, rc, cb, notes, scanned>>
\* queue.get returns a line; `cmd` is the line the handlers below dispatch on
BetaTakes(cmd) ==
    /\ variant = "beta" /\ pc = "get" /\ CMD_QUEUE # <<>>
    /\ Head(CMD_QUEUE) = cmd
    /\ CMD_QUEUE' = Tail(CMD_QUEUE)
    /\ last' = cmd
    /\ UNCHANGED <<conf, files, repeat, INPUT_THREAD_STOP, inp, mt, rc, cb, notes, scanned>>

\* raw == "__THREAD_EXIT__": stop and return
BetaThreadExit ==
    /\ BetaTakes(THREAD_EXIT)
    /\ Attempt("stop", 0, P_stop(player))
    /\ pc' = "return"
    /\ UNCHANGED <<current, State>>
    /\ Recorded

\* repeat / r
BetaRepeat ==
    /\ \E cmd \in {<<"repeat">>, <<"r">>} : BetaTakes(cmd)
    /\ State' = [State EXCEPT !.repeat = ~State.repeat]
    /\ pc' = "check"
    /\ Quiet
    /\ UNCHANGED current
    /\ Recorded

\* play / p
BetaPlay ==
    /\ \E cmd \in {<<"play">>, <<"p">>} : BetaTakes(cmd)
    /\ \E after \in P_play(player) : Attempt("play", 0, after)
    /\ pc' = "check"
    /\ UNCHANGED <<current, State>>
    /\ Recorded

\* pause
BetaPause ==
    /\ BetaTakes(<<"pause">>)
    /\ Attempt("pause", 0, P_pause(player))
    /\ pc' = "check"
    /\ UNCHANGED <<current, State>>
    /\ Recorded

\* stop / s
BetaStop ==
    /\ \E cmd \in {<<"stop">>, <<"s">>} : BetaTakes(cmd)
    /\ Attempt("stop", 0, P_stop(player))
    /\ pc' = "check"
    /\ UNCHANGED <<current, State>>
    /\ Recorded

\* volume: prints what the engine reports
BetaVolumeShow ==
    /\ BetaTakes(<<"volume">>)
    /\ pc' = "check"
    /\ Quiet
    /\ UNCHANGED <<current, State>>
    /\ Recorded

\* what `v+` / `v-` pass to the engine, from the volume read
VolUp(v)   == Min(100, v + 10)
VolDown(v) == Max(0, v - 10)

\* v+ and v-: `audio_get_volume() or 0` is the volume itself for every volume >= 0;
\* the read may raise (nothing is set), the set may raise
BetaVolStep ==
    /\ \E cmd \in {<<"v+">>, <<"v-">>} :
         /\ BetaTakes(cmd)
         /\ LET new == IF cmd = <<"v+">> THEN VolUp(player.volume)
                       ELSE VolDown(player.volume)
            IN  Quiet \/ Attempt("volume", new, P_set_volume(player, new))
    /\ pc' = "check"
    /\ UNCHANGED <<current, State>>
    /\ Recorded

\* a clamp that forgets the floor
ClampVolume_ceiling(val) == Min(100, val)
\* val = max(0, min(100, val))
ClampVolume(val) == Max(0, Min(100, val))

\* player.set_volume(player, n): audio_set_volume(max(0, min(100, int(n))))
set_volume(p, n) == P_set_volume(p, ClampVolume(n))

\* v <n>: int() raises on a token that is no number, and nothing is set
BetaVolSet ==
    /\ \E cmd \in alphabet :
         /\ Len(cmd) >= 2 /\ cmd[1] = "v"
         /\ BetaTakes(cmd)
         /\ IF IsInt(cmd[2])
            THEN Attempt("volume", ClampVolume(IntOf[cmd[2]]),
                         P_set_volume(player, ClampVolume(IntOf[cmd[2]])))
            ELSE Quiet
    /\ pc' = "check"
    /\ UNCHANGED <<current, State>>
    /\ Recorded

\* m: the read may raise (nothing is set), the set may raise
BetaMute ==
    /\ BetaTakes(<<"m">>)
    /\ \/ Quiet
       \/ Attempt("mute", IF player.mute THEN 0 ELSE 1, P_set_mute(player, ~player.mute))
    /\ pc' = "check"
    /\ UNCHANGED <<current, State>>
    /\ Recorded

\* a next that moves the local index and leaves STATE["current"] behind
BetaNext_local ==
    /\ \E cmd \in NextCmds : BetaTakes(cmd)
    /\ Attempt("stop", 0, P_stop(player))
    /\ current' = clamp_index(current + 1, Len(files))
    /\ State' = State
    /\ pc' = "play"
    /\ Recorded

\* next / n: stop, advance, break to the outer loop
BetaNext ==
    /\ \E cmd \in NextCmds : BetaTakes(cmd)
    /\ Attempt("stop", 0, P_stop(player))
    /\ current' = clamp_index(current + 1, Len(files))
    /\ State' = [State EXCEPT !.current = clamp_index(current + 1, Len(files))]
    /\ pc' = "play"
    /\ Recorded

\* prev / b / back: stop, retreat, break to the outer loop
BetaPrev ==
    /\ \E cmd \in PrevCmds : BetaTakes(cmd)
    /\ Attempt("stop", 0, P_stop(player))
    /\ current' = clamp_index(current - 1, Len(files))
    /\ State' = [State EXCEPT !.current = clamp_index(current - 1, Len(files))]
    /\ pc' = "play"
    /\ Recorded

\* exit / quit: stop and return
BetaExit ==
    /\ \E cmd \in {<<"exit">>, <<"quit">>} : BetaTakes(cmd)
    /\ Attempt("stop", 0, P_stop(player))
    /\ pc' = "return"
    /\ UNCHANGED <<current, State>>
    /\ Recorded

BetaKnown ==
    {THREAD_EXIT, <<"repeat">>, <<"r">>, <<"play">>, <<"p">>, <<"pause">>, <<"stop">>,
     <<"s">>, <<"volume">>, <<"v+">>, <<"v-">>, <<"m">>, <<"exit">>, <<"quit">>}
      \cup NextCmds \cup PrevCmds

\* anything else: "Unknown command"
BetaUnknown ==
    /\ \E cmd \in alphabet \ {EOF} :
         /\ cmd \notin BetaKnown
         /\ ~(Len(cmd) >= 2 /\ cmd[1] = "v")
         /\ BetaTakes(cmd)
    /\ pc' = "check"
    /\ Quiet
    /\ UNCHANGED <<current, State>>
    /\ Recorded

\* main()'s finally: signal the input thread, put the sentinel, join for at most a
\* second, stop the player; then the return, or the exception going on up
BetaFinally ==
    /\ variant = "beta" /\ pc \in {"return", "raised"}
    /\ INPUT_THREAD_STOP' = TRUE
    /\ CMD_QUEUE' = Append(CMD_QUEUE, THREAD_EXIT)
    /\ Attempt("stop", 0, P_stop(player))
    /\ pc' = IF pc = "return" THEN "done" ELSE "crashed"
    /\ UNCHANGED <<conf, files, current, repeat, State, inp, mt, rc, cb, last, notes,
                   scanned, hist>>

\* ---- the input thread (_input_thread_fn)
\* input() returns a line: it is queued, and the loop tests the stop event; at most
\* k typed lines wait in the queue
InputLineUpTo(k) ==
    /\ variant = "beta" /\ Running /\ inp = "input"
    /\ Len(CMD_QUEUE) < k
    /\ \E c \in alphabet \ {EOF} : CMD_QUEUE' = Append(CMD_QUEUE, c)
    /\ inp' = IF INPUT_THREAD_STOP THEN "finally" ELSE "input"
    /\ UNCHANGED <<conf, files, current, repeat, State, INPUT_THREAD_STOP, pc, cb, mt, rc,
                   player, log, last, notes, scanned, hist>>

InputLine == InputLineUpTo(MaxQueue)

\* input() raises EOFError / KeyboardInterrupt: the sentinel is queued, break
InputEOF ==
    /\ variant = "beta" /\ Running /\ inp = "input"
    /\ EOF \in alphabet
    /\ CMD_QUEUE' = Append(CMD_QUEUE, THREAD_EXIT)
    /\ inp' = "finally"
    /\ UNCHANGED <<conf, files, current, repeat, State, INPUT_THREAD_STOP, pc, cb, mt, rc,
                   player, log, last, notes, scanned, hist>>

\* the thread's finally: the sentinel once more
InputFinally ==
    /\ variant = "beta" /\ Running /\ inp = "finally"
    /\ CMD_QUEUE' = Append(CMD_QUEUE, THREAD_EXIT)
    /\ inp' = "dead"
    /\ UNCHANGED <<conf, files, current, repeat, State, INPUT_THREAD_STOP, pc, cb, mt, rc,
                   player, log, last, notes, scanned, hist>>

\* ---- the engine's thread
\* the track playing reaches its end: MediaPlayerEndReached, and the callback attached
\* to it (beta, onefile) is called
EngineEnd ==
    /\ Running /\ player.created /\ player.state = "Playing" /\ cb.pc = "idle"
    /\ player' = [player EXCEPT !.state = "Ended"]
    /\ cb' = [cb EXCEPT !.pc = CASE variant = "beta" -> "r1"
                                  [] variant = "onefile" -> "e1"
                                  [] OTHER -> "idle"]
    /\ EngineMoved
    /\ UNCHANGED <<conf, files, current, repeat, State, thr, pc, log, last, notes, scanned>>

\* _on_track_end: cur = STATE.get("current", 0); files; n = len(files) or 1
OnTrackEndRead ==
    /\ variant = "beta" /\ Running /\ cb.pc = "r1"
    /\ cb' = [cb EXCEPT !.pc = "r2", !.cur = State.current]
    /\ UNCHANGED <<conf, files, current, repeat, State, thr, pc, player, log, last, notes,
                   scanned, hist>>

\* a callback that asks for the index it read whatever the repeat mode
NextIndexFor_same(cur, rep, n) == cur
\* the index _on_track_end asks for
NextIndexFor(cur, rep, n) == IF rep THEN cur ELSE (cur + 1) % n

\* _on_track_end: STATE["next_index"] = cur, or (cur + 1) % n
OnTrackEndTarget ==
    /\ variant = "beta" /\ Running /\ cb.pc = "r2"
    /\ State' = [State EXCEPT !.next_index =
                   NextIndexFor(cb.cur, State.repeat,
                                IF Len(files) = 0 THEN 1 ELSE Len(files))]
    /\ noted' = [cur |-> cb.cur, rep |-> State.repeat]
    /\ cb' = [cb EXCEPT !.pc = "r3"]
    /\ UNCHANGED <<conf, files, current, repeat, thr, pc, player, log, last, got,
                   scanned, hist>>

\* _on_track_end: STATE["ended"] = True
OnTrackEndFlag ==
    /\ variant = "beta" /\ Running /\ cb.pc = "r3"
    /\ State' = [State EXCEPT !.ended = TRUE]
    /\ cb' = [cb EXCEPT !.pc = "idle"]
    /\ UNCHANGED <<conf, files, current, repeat, thr, pc, player, log, last, notes,
                   scanned, hist>>

\* ================================================================== cli
\* a handler of cli.main's inner loop reads the line itself: input() returned `cmd`
CliTakes(cmd) ==
    /\ variant = "cli" /\ pc = "input"
    /\ cmd \in alphabet \ {EOF}
    /\ last' = cmd
    /\ UNCHANGED <<conf, repeat, State, thr, cb, notes>>

\* one engine call at the start of a handler
First(op, arg, after) ==
    \E ok \in BOOLEAN :
        /\ player' = IF ok THEN after ELSE player
        /\ log' = <<D(op, arg, "main", ok)>>

\* cli.main up to the loop: scan (a missing folder raises), the empty test, create_player
CliMain ==
    /\ variant = "cli" /\ pc = "start"
    /\ \E folder \in Folders, created \in BOOLEAN :
         LET found == ScanFolder(folder, ALLOWED_EXT_Cli) IN
         /\ scanned' = [exists |-> folder.exists, matches |-> Len(found)]
         /\ IF MustExit(folder.exists, found) \/ ~created
            THEN /\ pc' = "fatal"
                 /\ UNCHANGED <<files, current, player>>
            ELSE /\ files' = found
                 /\ player' = NewPlayer
                 /\ current' = clamp_index(0, Len(found))
                 /\ pc' = "play"
    /\ UNCHANGED <<conf, repeat, State, thr, cb, log, last, notes, hist>>

\* top of the outer loop: files[current] is read for the banner (an IndexError there
\* is not caught), then play_track inside try/except
CliPlayTrack ==
    /\ variant = "cli" /\ pc = "play"
    /\ IF current < Len(files)
       THEN /\ \E ok \in BOOLEAN :
                 /\ IF ok THEN player' \in play_track(player, files[current + 1])
                    ELSE player' = player
                 /\ log' = log \o PlayTrackLog(files[current + 1], "main", ok)
            /\ pc' = "input"
       ELSE /\ pc' = "crashed"
            /\ UNCHANGED <<player, log>>
    /\ EngineMoved
    /\ UNCHANGED <<conf, files, current, repeat, State, thr, cb, last, notes, scanned>>

\* an end of input that returns without stopping the engine
CliEOF_unstopped ==
    /\ variant = "cli" /\ pc = "input"
    /\ EOF \in alphabet
    /\ last' = THREAD_EXIT
    /\ log' = <<>>
    /\ pc' = "done"
    /\ UNCHANGED <<conf, files, current, repeat, State, thr, cb, notes, scanned, player>>
    /\ Recorded
\* input() raises KeyboardInterrupt / EOFError: safe_stop and return
CliEOF ==
    /\ variant = "cli" /\ pc = "input"
    /\ EOF \in alphabet
    /\ last' = THREAD_EXIT
    /\ First("stop", 0, P_stop(player))
    /\ pc' = "done"
    /\ UNCHANGED <<conf, files, current, repeat, State, thr, cb, notes, scanned>>
    /\ Recorded

CliPlay ==
    /\ \E cmd \in {<<"play">>, <<"p">>} : CliTakes(cmd)
    /\ \E after \in P_play(player) : First("play", 0, after)
    /\ UNCHANGED <<files, current, pc, scanned>>
    /\ Recorded

CliPause ==
    /\ CliTakes(<<"pause">>)
    /\ First("pause", 0, P_pause(player))
    /\ UNCHANGED <<files, current, pc, scanned>>
    /\ Recorded

CliStop ==
    /\ \E cmd \in {<<"stop">>, <<"s">>} : CliTakes(cmd)
    /\ First("stop", 0, P_stop(player))
    /\ UNCHANGED <<files, current, pc, scanned>>
    /\ Recorded

\* util.safe_get_volume: the engine's volume, or the default when the read raises
\* or reports a negative volume
safe_get_volume(p, raises) == IF raises \/ p.volume < 0 THEN 50 ELSE p.volume

CliVolumeShow ==
    /\ \E cmd \in {<<"volume">>, <<"vol">>} : CliTakes(cmd)
    /\ log' = <<>>
    /\ UNCHANGED <<files, current, pc, player, scanned>>
    /\ Recorded

\* util.safe_set_volume: clamp again, set; a raise is swallowed
safe_set_volume(value) ==
    First("volume", ClampVolume(value), P_set_volume(player, ClampVolume(value)))

\* v+ and v-
CliVolStep ==
    /\ \E cmd \in {<<"v+">>, <<"v-">>}, raises \in BOOLEAN :
         /\ CliTakes(cmd)
         /\ LET cur == safe_get_volume(player, raises)
            IN  safe_set_volume(IF cmd = <<"v+">> THEN VolUp(cur) ELSE VolDown(cur))
    /\ UNCHANGED <<files, current, pc, scanned>>
    /\ Recorded

\* v <n>
CliVolSet ==
    /\ \E cmd \in alphabet :
         /\ Len(cmd) >= 2 /\ cmd[1] = "v"
         /\ CliTakes(cmd)
         /\ IF IsInt(cmd[2])
            THEN safe_set_volume(ClampVolume(IntOf[cmd[2]]))
            ELSE /\ log' = <<>>
                 /\ UNCHANGED player
    /\ UNCHANGED <<files, current, pc, scanned>>
    /\ Recorded

\* m / mute: the read may raise (nothing is set), the set may raise
CliMute ==
    /\ \E cmd \in {<<"m">>, <<"mute">>} : CliTakes(cmd)
    /\ \/ log' = <<>> /\ UNCHANGED player
       \/ First("mute", IF player.mute THEN 0 ELSE 1, P_set_mute(player, ~player.mute))
    /\ UNCHANGED <<files, current, pc, scanned>>
    /\ Recorded

CliNext ==
    /\ \E cmd \in {<<"next">>, <<"n">>} : CliTakes(cmd)
    /\ First("stop", 0, P_stop(player))
    /\ current' = clamp_index(current + 1, Len(files))
    /\ pc' = "play"
    /\ UNCHANGED <<files, scanned>>
    /\ Recorded

CliPrev ==
    /\ \E cmd \in {<<"prev">>, <<"b">>, <<"back">>} : CliTakes(cmd)
    /\ First("stop", 0, P_stop(player))
    /\ current' = clamp_index(current - 1, Len(files))
    /\ pc' = "play"
    /\ UNCHANGED <<files, scanned>>
    /\ Recorded

\* pl: the folder is scanned again; a missing folder raises and the old list stays
CliReload ==
    /\ CliTakes(<<"pl">>)
    /\ \E folder \in Folders :
         files' = IF folder.exists THEN ScanFolder(folder, ALLOWED_EXT_Cli) ELSE files
    /\ log' = <<>>
    /\ UNCHANGED <<current, pc, player, scanned>>
    /\ Recorded

CliExit ==
    /\ \E cmd \in {<<"exit">>, <<"quit">>} : CliTakes(cmd)
    /\ First("stop", 0, P_stop(player))
    /\ pc' = "done"
    /\ UNCHANGED <<files, current, scanned>>
    /\ Recorded

CliKnown ==
    {<<"play">>, <<"p">>, <<"pause">>, <<"stop">>, <<"s">>, <<"volume">>, <<"vol">>,
     <<"v+">>, <<"v-">>, <<"m">>, <<"mute">>, <<"next">>, <<"n">>, <<"prev">>, <<"b">>,
     <<"back">>, <<"pl">>, <<"exit">>, <<"quit">>}

CliUnknown ==
    /\ \E cmd \in alphabet \ {EOF} :
         /\ cmd \notin CliKnown
         /\ ~(Len(cmd) >= 2 /\ cmd[1] = "v")
         /\ CliTakes(cmd)
    /\ log' = <<>>
    /\ UNCHANGED <<files, current, pc, player, scanned>>
    /\ Recorded

\* ============================================================== onefile
\* the playlist main() builds from the arguments that exist
Tracks(n) == [i \in 1..n |-> i]

\* del self.items[idx]
DelAt(items, idx) ==
    [i \in 1..(Len(items) - 1) |-> IF i <= idx THEN items[i] ELSE items[i + 1]]

\* Playlist.next, Playlist.prev and Playlist.remove as each acts when nothing runs
\* beside it, on s = [items, index]
PlNext(s) ==
    IF s.items = <<>> THEN s
    ELSE [s EXCEPT !.index = (s.index + 1) % Len(s.items)]
PlPrev(s) ==
    IF s.items = <<>> THEN s
    ELSE [s EXCEPT !.index = (s.index - 1) % Len(s.items)]
\* a remove that leaves the index where it was
PlRemove_unclamped(s, idx) ==
    IF 0 <= idx /\ idx < Len(s.items)
    THEN [items |-> DelAt(s.items, idx), index |-> s.index]
    ELSE s
\* Playlist.remove
PlRemove(s, idx) ==
    IF 0 <= idx /\ idx < Len(s.items)
    THEN LET left == DelAt(s.items, idx)
         IN  [items |-> left,
              index |-> IF s.index >= Len(left) THEN Max(0, Len(left) - 1) ELSE s.index]
    ELSE s
\* Playlist.jump
PlJump(s, idx) ==
    IF 0 <= idx /\ idx < Len(s.items) THEN [s EXCEPT !.index = idx] ELSE s
\* Playlist.add
PlAdd(s, path) == [s EXCEPT !.items = Append(s.items, path)]
\* Playlist.current: None for an empty list, the item at the index otherwise
PlCurrent(s) == IF s.items = <<>> THEN NoMedia ELSE s.items[s.index + 1]
\* Playlist.clear
PlClear(s) == [items |-> <<>>, index |-> 0]
\* the orders random.shuffle may leave a list in
Shuffles(items) ==
    { [i \in 1..Len(items) |-> items[f[i]]] : f \in Permutations(1..Len(items)) }
\* list.index(x): the first position that holds x, counted from 0
IndexIn(items, x) == (CHOOSE i \in 1..Len(items) :
                         items[i] = x /\ \A j \in 1..(i - 1) : items[j] # x) - 1
\* a shuffle that leaves the index where it was
PlShuffle_unmoved(s) ==
    IF s.items = <<>> THEN {s}
    ELSE { [items |-> p, index |-> s.index] : p \in Shuffles(s.items) }
\* Playlist.shuffle: every outcome it may have
PlShuffle(s) ==
    IF s.items = <<>> THEN {s}
    ELSE { [items |-> p,
            index |-> IF \E i \in 1..Len(p) : p[i] = PlCurrent(s)
                      THEN IndexIn(p, PlCurrent(s)) ELSE 0] : p \in Shuffles(s.items) }
PlApply(op, s) ==
    CASE op.kind = "next" -> PlNext(s)
      [] op.kind = "prev" -> PlPrev(s)
      [] op.kind = "del"  -> PlRemove(s, op.arg)
      [] op.kind = "jump" -> PlJump(s, op.arg)
      [] OTHER -> s

\* a thread enters a Playlist call that writes the index
RcStart(who, op) ==
    rc' = IF rc.st \in {"idle", "done"}
          THEN [st |-> who, s0 |-> [items |-> files, index |-> current], op |-> op]
          ELSE IF rc.st = "cb" /\ who = "main" THEN [rc EXCEPT !.st = "both", !.op = op]
          ELSE IF rc.st = "main" /\ who = "cb" THEN [rc EXCEPT !.st = "both"]
          ELSE [rc EXCEPT !.st = "tainted"]
\* a thread has made the last write of its Playlist call
RcEnd(who) ==
    LET other == IF who = "cb" THEN pc \in {"n2", "d2"} ELSE cb.pc \in {"e3", "e4"}
    IN  rc' = CASE rc.st \in {"cb", "main"} -> RcIdle
                [] rc.st = "both" -> [rc EXCEPT !.st = "both1"]
                [] rc.st = "both1" -> [rc EXCEPT !.st = "done"]
                [] rc.st = "tainted" -> IF other THEN rc ELSE RcIdle
                [] OTHER -> rc

\* a handler of cli_loop reads the line itself: input() returned `cmd`
OneTakes(cmd) ==
    /\ variant = "onefile" /\ pc = "input"
    /\ cmd \in alphabet \ {EOF}
    /\ last' = cmd
    /\ UNCHANGED <<conf, State, CMD_QUEUE, INPUT_THREAD_STOP, inp, cb, notes, scanned>>

\* an engine call of the main thread, in no try/except: it acts and the loop goes on
\* at `then`, or raises and the program ends
Bare(op, arg, after, then) ==
    \E ok \in BOOLEAN :
        /\ player' = IF ok THEN after ELSE player
        /\ log' = <<D(op, arg, "main", ok)>>
        /\ pc' = IF ok THEN then ELSE "crashed"

\* _set_media_by_path(path) and vlc_player.play(), in no try/except
BarePlayTrack(path, then) ==
    \E ok \in BOOLEAN :
        /\ IF ok THEN player' \in play_track(player, path) ELSE player' = player
        /\ log' = PlayTrackLog(path, "main", ok)
        /\ pc' = IF ok THEN then ELSE "crashed"

\* main(): the arguments that exist become the playlist, the engine is created
\* whatever the playlist holds, and the first track, if any, is played
OneMain ==
    /\ variant = "onefile" /\ pc = "start"
    /\ \E n \in 0..MaxTracks, created \in BOOLEAN, ok \in BOOLEAN :
         /\ scanned' = [exists |-> TRUE, matches |-> n]
         /\ IF ~created
            THEN /\ pc' = "crashed"
                 /\ UNCHANGED <<files, player, log>>
            ELSE /\ files' = Tracks(n)
                 /\ IF n = 0
                    THEN /\ player' = NewPlayer
                         /\ log' = <<>>
                         /\ pc' = "input"
                    ELSE /\ IF ok THEN player' \in play_track(NewPlayer, Tracks(n)[1])
                            ELSE player' = NewPlayer
                         /\ log' = PlayTrackLog(Tracks(n)[1], "main", ok)
                         /\ pc' = IF ok THEN "input" ELSE "crashed"
    /\ hist' = [hist EXCEPT !.np = InFlight(hist.np, log')]
    /\ UNCHANGED <<conf, current, repeat, State, thr, cb, last, notes>>

\* input() raises EOFError / KeyboardInterrupt: core.stop() and break
OneEOF ==
    /\ variant = "onefile" /\ pc = "input"
    /\ EOF \in alphabet
    /\ last' = THREAD_EXIT
    /\ Bare("stop", 0, P_stop(player), "done")
    /\ UNCHANGED <<conf, files, current, repeat, State, thr, cb, notes, scanned>>
    /\ Recorded

\* play: core.play(), then play_current() if no media is loaded
OnePlay ==
    /\ OneTakes(<<"play">>)
    /\ IF player.state = "Playing"
       THEN log' = <<>> /\ UNCHANGED <<player, pc>>
       ELSE IF player.media # NoMedia
       THEN \E after \in P_play(player) : Bare("play", 0, after, "input")
       ELSE IF files = <<>>
       THEN log' = <<>> /\ UNCHANGED <<player, pc>>
       ELSE IF current < Len(files)
       THEN BarePlayTrack(files[current + 1], "input")
       ELSE log' = <<>> /\ pc' = "crashed" /\ UNCHANGED player
    /\ UNCHANGED <<files, current, repeat, thr>>
    /\ Recorded

\* pause: core.pause()
OnePause ==
    /\ OneTakes(<<"pause">>)
    /\ Bare("pause", 0, P_pause(player), "input")
    /\ UNCHANGED <<files, current, repeat, thr>>
    /\ Recorded

\* stop: core.stop()
OneStop ==
    /\ OneTakes(<<"stop">>)
    /\ Bare("stop", 0, P_stop(player), "input")
    /\ UNCHANGED <<files, current, repeat, thr>>
    /\ Recorded

\* quit: core.stop() and break
OneQuit ==
    /\ OneTakes(<<"quit">>)
    /\ Bare("stop", 0, P_stop(player), "done")
    /\ UNCHANGED <<files, current, repeat, thr>>
    /\ Recorded

\* repeat, repeat on|off: toggle_repeat / set_repeat, under the lock
OneRepeat ==
    /\ \E cmd \in alphabet :
         /\ cmd[1] = "repeat"
         /\ OneTakes(cmd)
         /\ repeat' = IF Len(cmd) = 1 THEN ~repeat
                      ELSE IF cmd[2] \in {"on", "1", "true"} THEN TRUE
                      ELSE IF cmd[2] \in {"off", "0", "false"} THEN FALSE
                      ELSE repeat
    /\ log' = <<>>
    /\ UNCHANGED <<files, current, pc, player, thr>>
    /\ Recorded

\* next / prev, first step: Playlist.next / prev finds items, reads the index and the
\* length (nothing but this thread writes items) and computes the new index
OneStepCall ==
    /\ \E cmd \in {<<"next">>, <<"prev">>} :
         /\ OneTakes(cmd)
         /\ IF files = <<>>
            THEN UNCHANGED <<pc, mt, rc>>
            ELSE /\ mt' = [op |-> cmd[1], t |-> current,
                           v |-> IF cmd[1] = "next" THEN (current + 1) % Len(files)
                                 ELSE (current - 1) % Len(files)]
                 /\ pc' = "n2"
                 /\ RcStart("main", [kind |-> cmd[1], arg |-> 0])
    /\ log' = <<>>
    /\ UNCHANGED <<files, current, repeat, player, CMD_QUEUE, INPUT_THREAD_STOP, inp>>
    /\ Recorded

\* the frame of the main thread's steps inside a command
OneInside ==
    UNCHANGED <<conf, files, repeat, State, CMD_QUEUE, INPUT_THREAD_STOP, inp, cb, last,
                notes, scanned>>

\* next / prev: self.index = ...
OneStepStore ==
    /\ variant = "onefile" /\ pc = "n2"
    /\ current' = mt.v
    /\ pc' = "n3"
    /\ RcEnd("main")
    /\ OneInside
    /\ UNCHANGED <<mt, player, log, hist>>

\* next / prev: return self.current(), which reads the index again
OneStepCurrent ==
    /\ variant = "onefile" /\ pc = "n3"
    /\ IF files = <<>>
       THEN pc' = "input" /\ mt' = NoLocals
       ELSE IF current < Len(files)
       THEN pc' = "n4" /\ mt' = [mt EXCEPT !.v = files[current + 1]]
       ELSE pc' = "crashed" /\ mt' = NoLocals
    /\ OneInside
    /\ UNCHANGED <<current, player, log, rc, hist>>

\* core.next / core.prev: _set_media_by_path(nxt); vlc_player.play()
OneStepPlay ==
    /\ variant = "onefile" /\ pc = "n4"
    /\ BarePlayTrack(mt.v, "input")
    /\ mt' = NoLocals
    /\ EngineMoved
    /\ OneInside
    /\ UNCHANGED <<current, rc>>

\* del / remove <idx>: int() raises on a token that is no number; Playlist.remove
\* deletes the item if idx is in range
OneDel ==
    /\ \E cmd \in alphabet :
         /\ cmd[1] \in {"del", "remove"}
         /\ OneTakes(cmd)
         /\ IF Len(cmd) >= 2 /\ IsInt(cmd[2]) /\ 0 <= IntOf[cmd[2]]
               /\ IntOf[cmd[2]] < Len(files)
            THEN /\ files' = DelAt(files, IntOf[cmd[2]])
                 /\ pc' = "d2"
                 /\ RcStart("main", [kind |-> "del", arg |-> IntOf[cmd[2]]])
            ELSE UNCHANGED <<files, pc, rc>>
    /\ log' = <<>>
    /\ UNCHANGED <<current, repeat, player, CMD_QUEUE, INPUT_THREAD_STOP, inp, mt>>
    /\ Recorded

\* Playlist.remove: if self.index >= len(self.items): self.index = max(0, len - 1)
OneDelClamp ==
    /\ variant = "onefile" /\ pc = "d2"
    /\ current' = IF current >= Len(files) THEN Max(0, Len(files) - 1) ELSE current
    /\ pc' = "input"
    /\ RcEnd("main")
    /\ OneInside
    /\ UNCHANGED <<mt, player, log, hist>>

\* a parser that takes 0 for a token that is no number
Parsed_lenient(t) == [ok |-> TRUE, val |-> IF IsInt(t) THEN IntOf[t] ELSE 0]
\* idx = int(parts[1]) inside try / except ValueError
Parsed(t) == IF IsInt(t) THEN [ok |-> TRUE, val |-> IntOf[t]] ELSE [ok |-> FALSE, val |-> 0]

\* MFPlayerCore.play: nothing when the engine reports Playing; play_current when no
\* media is loaded (cur is playlist.current(), if any); vlc_player.play() otherwise
core_play(p, cur) ==
    IF p.state = "Playing" THEN {p}
    ELSE IF p.media = NoMedia
    THEN IF cur = NoMedia THEN {p} ELSE play_track(p, cur)
    ELSE P_play(p)

\* jump <idx>: Playlist.jump stores the index if it is in range; then
\* _set_media_by_path(playlist.current()) and core.play(), in no try/except but the
\* one for ValueError
OneJump ==
    /\ \E cmd \in alphabet :
         /\ cmd[1] = "jump"
         /\ OneTakes(cmd)
         /\ LET n == IF Len(cmd) >= 2 THEN Parsed(cmd[2]) ELSE [ok |-> FALSE, val |-> 0]
                s == PlJump([items |-> files, index |-> current], n.val)
            IN  IF n.ok /\ 0 <= n.val /\ n.val < Len(files)
                THEN /\ current' = s.index
                     /\ rc' = IF rc.st \in {"idle", "done"} THEN RcIdle
                              ELSE IF rc.st = "cb"
                              THEN [st |-> "both1", s0 |-> rc.s0,
                                    op |-> [kind |-> "jump", arg |-> n.val]]
                              ELSE [rc EXCEPT !.st = "tainted"]
                     /\ \E ok \in BOOLEAN :
                          LET path   == files[s.index + 1]
                              loaded == P_set_media(player, path)
                          IN  /\ IF ok THEN player' \in core_play(loaded, path)
                                 ELSE player' = player
                              /\ log' = IF loaded.state = "Playing"
                                        THEN <<D("load", path, "main", ok)>>
                                        ELSE PlayTrackLog(path, "main", ok)
                              /\ pc' = IF ok THEN "input" ELSE "crashed"
                ELSE /\ log' = <<>>
                     /\ UNCHANGED <<current, rc, player, pc>>
    /\ UNCHANGED <<files, repeat, CMD_QUEUE, INPUT_THREAD_STOP, inp, mt>>
    /\ Recorded

\* a Playlist call of the main thread that is over in one step; one that meets the
\* callback inside its Playlist.next is not followed further
RcWhole ==
    rc' = IF rc.st \in {"idle", "done"} THEN RcIdle ELSE [rc EXCEPT !.st = "tainted"]

\* shuffle: playlist.shuffle(), which makes no engine call
OneShuffle ==
    /\ OneTakes(<<"shuffle">>)
    /\ IF files = <<>>
       THEN UNCHANGED <<files, current, pc, rc>>
       ELSE IF current < Len(files)
       THEN /\ \E s \in PlShuffle([items |-> files, index |-> current]) :
                 files' = s.items /\ current' = s.index
            /\ RcWhole
            /\ UNCHANGED pc
       ELSE pc' = "crashed" /\ UNCHANGED <<files, current, rc>>
    /\ log' = <<>>
    /\ UNCHANGED <<repeat, player, CMD_QUEUE, INPUT_THREAD_STOP, inp, mt>>
    /\ Recorded

\* add <path>: the path is appended if it exists (a path names a track by its number);
\* the list is kept to MaxTracks items
OneAdd ==
    /\ \E cmd \in alphabet :
         /\ cmd[1] = "add"
         /\ Len(files) < MaxTracks
         /\ OneTakes(cmd)
         /\ \E exists \in BOOLEAN :
              IF Len(cmd) >= 2 /\ IsInt(cmd[2]) /\ IntOf[cmd[2]] >= 1 /\ exists
              THEN /\ files' = PlAdd([items |-> files, index |-> current],
                                     IntOf[cmd[2]]).items
                   /\ RcWhole
              ELSE UNCHANGED <<files, rc>>
    /\ log' = <<>>
    /\ UNCHANGED <<current, repeat, pc, player, CMD_QUEUE, INPUT_THREAD_STOP, inp, mt>>
    /\ Recorded

\* status: get_status() reads playlist.current(); help and list print
OneShow ==
    /\ \E cmd \in {<<"status">>, <<"help">>, <<"list">>} :
         /\ OneTakes(cmd)
         /\ pc' = IF cmd = <<"status">> /\ files # <<>> /\ current >= Len(files)
                  THEN "crashed" ELSE "input"
    /\ log' = <<>>
    /\ UNCHANGED <<files, current, repeat, player, thr>>
    /\ Recorded

OneKnown ==
    {"help", "play", "pause", "stop", "next", "prev", "repeat", "shuffle", "add", "del",
     "remove", "jump", "list", "status", "quit"}

\* anything else: "Unknown command"
OneUnknown ==
    /\ \E cmd \in alphabet \ {EOF} :
         /\ cmd[1] \notin OneKnown
         /\ OneTakes(cmd)
    /\ log' = <<>>
    /\ UNCHANGED <<files, current, repeat, pc, player, thr>>
    /\ Recorded

\* ---- _on_end, on the engine's thread
\* the frame of the callback's steps
OnEndFrame ==
    UNCHANGED <<conf, files, repeat, State, CMD_QUEUE, INPUT_THREAD_STOP, inp, mt, pc,
                last, notes, scanned>>

\* an engine call of the callback
ByCallback(op, arg) == <<D(op, arg, "cb", TRUE)>>

\* with self.lock: do_repeat = self.repeat
OnEndRepeat ==
    /\ variant = "onefile" /\ Running /\ cb.pc = "e1"
    /\ cb' = [cb EXCEPT !.pc = IF repeat THEN "e2r" ELSE "e2"]
    /\ OnEndFrame
    /\ UNCHANGED <<current, player, log, rc, hist>>

\* repeat ON: stop(); play(); set_time(0) restart the media that is loaded; if one of
\* them raises, the fallback loads playlist.current() and plays it
OnEndRestart ==
    /\ variant = "onefile" /\ Running /\ cb.pc = "e2r"
    /\ \/ /\ player' \in P_play(P_stop(player))
          /\ log' = ByCallback("play", player.media)
       \/ /\ files # <<>> /\ current < Len(files)
          /\ player' \in play_track(player, files[current + 1])
          /\ log' = ByCallback("load", files[current + 1])
       \/ /\ files = <<>> \/ current >= Len(files)
          /\ UNCHANGED <<player, log>>
    /\ cb' = CbIdle
    /\ EngineMoved
    /\ OnEndFrame
    /\ UNCHANGED <<current, rc>>

\* repeat OFF, Playlist.next: `if not self.items`, then the index is read
OnEndNextRead ==
    /\ variant = "onefile" /\ Running /\ cb.pc = "e2"
    /\ IF files = <<>>
       THEN cb' = [cb EXCEPT !.pc = "e6", !.nxt = NoMedia] /\ UNCHANGED rc
       ELSE cb' = [cb EXCEPT !.pc = "e3", !.cur = current]
            /\ RcStart("cb", NoOp)
    /\ OnEndFrame
    /\ UNCHANGED <<current, player, log, hist>>

\* Playlist.next: (index + 1) % len(self.items); a list emptied meanwhile raises
\* ZeroDivisionError, which ends the callback
OnEndNextLen ==
    /\ variant = "onefile" /\ Running /\ cb.pc = "e3"
    /\ IF files = <<>>
       THEN cb' = CbIdle /\ RcEnd("cb")
       ELSE cb' = [cb EXCEPT !.pc = "e4", !.v = (cb.cur + 1) % Len(files)]
            /\ UNCHANGED rc
    /\ OnEndFrame
    /\ UNCHANGED <<current, player, log, hist>>

\* Playlist.next: self.index = ...
OnEndNextStore ==
    /\ variant = "onefile" /\ Running /\ cb.pc = "e4"
    /\ current' = cb.v
    /\ cb' = [cb EXCEPT !.pc = "e5"]
    /\ RcEnd("cb")
    /\ IndexMoved
    /\ OnEndFrame
    /\ UNCHANGED <<player, log>>

\* Playlist.next: return self.current(); an index out of range raises IndexError,
\* which ends the callback
OnEndNextCurrent ==
    /\ variant = "onefile" /\ Running /\ cb.pc = "e5"
    /\ cb' = IF files = <<>> THEN [cb EXCEPT !.pc = "e6", !.nxt = NoMedia]
             ELSE IF current < Len(files)
             THEN [cb EXCEPT !.pc = "e6", !.nxt = files[current + 1]]
             ELSE CbIdle
    /\ OnEndFrame
    /\ UNCHANGED <<current, player, log, rc, hist>>

\* if nxt: _set_media_by_path(nxt); play()   else: stop()
OnEndPlay ==
    /\ variant = "onefile" /\ Running /\ cb.pc = "e6"
    /\ IF cb.nxt # NoMedia
       THEN /\ player' \in play_track(player, cb.nxt)
            /\ log' = ByCallback("load", cb.nxt)
       ELSE /\ player' = P_stop(player)
            /\ log' = ByCallback("stop", 0)
    /\ cb' = CbIdle
    /\ EngineMoved
    /\ OnEndFrame
    /\ UNCHANGED <<current, rc>>

\* ================================================================== Next
BetaStep ==
    \/ BetaMain \/ BetaPlayTrack \/ BetaCheckEnded \/ BetaTimeout
    \/ BetaThreadExit \/ BetaRepeat \/ BetaPlay \/ BetaPause \/ BetaStop
    \/ BetaVolumeShow \/ BetaVolStep \/ BetaVolSet \/ BetaMute
    \/ BetaNext \/ BetaPrev \/ BetaExit \/ BetaUnknown \/ BetaFinally
    \/ InputLine \/ InputEOF \/ InputFinally
    \/ OnTrackEndRead \/ OnTrackEndTarget \/ OnTrackEndFlag

CliStep ==
    \/ CliMain \/ CliPlayTrack \/ CliEOF \/ CliPlay \/ CliPause \/ CliStop
    \/ CliVolumeShow \/ CliVolStep \/ CliVolSet \/ CliMute \/ CliNext \/ CliPrev
    \/ CliReload \/ CliExit \/ CliUnknown

OneStep ==
    \/ OneMain \/ OneEOF \/ OnePlay \/ OnePause \/ OneStop \/ OneQuit \/ OneRepeat
    \/ OneStepCall \/ OneStepStore \/ OneStepCurrent \/ OneStepPlay
    \/ OneDel \/ OneDelClamp \/ OneJump \/ OneShuffle \/ OneAdd \/ OneShow \/ OneUnknown
    \/ OnEndRepeat \/ OnEndRestart \/ OnEndNextRead \/ OnEndNextLen \/ OnEndNextStore
    \/ OnEndNextCurrent \/ OnEndPlay

Next == BetaStep \/ CliStep \/ OneStep \/ EngineEnd

Spec == Init /\ [][Next]_vars

\* ============================================================ properties
\* the calls of a log, without who made them and how they ended
Calls(l) == [i \in 1..Len(l) |-> <<l[i].op, l[i].arg>>]

\* C1: in beta, when the flag of an ended notification raised at index i with repeat
\* OFF has been consumed, the index is (i + 1) mod N, and the iteration that follows
\* issues one load and one play, for the track at the new index, and nothing else.
C1_EndedAdvances ==
    (variant = "beta" /\ last = ENDED /\ ~got.rep /\ pc \in {"play", "check", "raised"})
        => /\ current = (got.cur + 1) % Len(files)
           /\ State.current = current
           /\ pc = "play" => log = <<>>
           /\ pc \in {"check", "raised"}
                => Calls(log) = << <<"load", files[current + 1]>>, <<"play", 0>> >>

\* the scenario of three tracks: the third ends, the first is loaded and played
C1_Witness ==
    /\ variant = "beta" /\ last = ENDED /\ ~got.rep /\ pc = "check"
    /\ Len(files) = 3 /\ got.cur = 2 /\ current = 0
    /\ Calls(log) = << <<"load", files[1]>>, <<"play", 0>> >>
    /\ \A i \in 1..Len(log) : log[i].ok

\* C6: from index 0 on N >= 1 tracks, after k next commands and nothing else that
\* moves the index or changes the playlist, the index is k mod N.
C6_NextWraps ==
    (hist.run.kind = "next" /\ pc # "n2")
        => /\ Len(files) >= 1
           /\ current = hist.run.k % Len(files)

\* four next commands on three tracks: past the end and on to index 1
C6_Witness ==
    /\ hist.run.kind = "next" /\ hist.run.k = 4 /\ pc # "n2"
    /\ Len(files) = 3 /\ current = 1

\* C7: from index 0 on N >= 1 tracks, after k prev commands and nothing else that
\* moves the index or changes the playlist, the index is (N - (k mod N)) mod N.
C7_PrevWraps ==
    (hist.run.kind = "prev" /\ pc # "n2")
        => /\ Len(files) >= 1
           /\ current = (Len(files) - (hist.run.k % Len(files))) % Len(files)

\* four prev commands on three tracks: back past the start and on to index 2
C7_Witness ==
    /\ hist.run.kind = "prev" /\ hist.run.k = 4 /\ pc # "n2"
    /\ Len(files) = 3 /\ current = 2

\* the line `v <x>` with x a number has been handled and the engine took the call
VolumeSetTo(x) ==
    /\ Len(last) = 2 /\ last[1] = "v" /\ IsInt(last[2]) /\ IntOf[last[2]] = x
    /\ log # <<>> /\ log[Len(log)].op = "volume" /\ log[Len(log)].ok

\* C8: after `v <x>` the engine holds max(0, min(100, x)); the lines v 150, v -10,
\* v 50 in this order leave 100, 0 and 50.
C8_VolumeClamped ==
    /\ \A x \in {150, 0 - 10, 50} :
         /\ VolumeSetTo(x)
               => player.volume = IF x < 0 THEN 0 ELSE IF x > 100 THEN 100 ELSE x
         /\ set_volume(player, x).volume = IF x < 0 THEN 0 ELSE IF x > 100 THEN 100 ELSE x
    /\ hist.scen.k = 3 => hist.scen.vols = <<100, 0, 50>>

\* the three lines have been typed in a row, and the last has just acted
C8_Witness ==
    /\ hist.scen.k = 3 /\ hist.scen.vols = <<100, 0, 50>>
    /\ VolumeSetTo(50) /\ player.volume = 50

\* C9: a pause on a playing engine leaves it paused and a second pause right after
\* leaves it playing; neither moves the index or changes the repeat mode.
C9_PauseToggles ==
    /\ hist.pz.k = 1
         => player.state = "Paused" /\ current = hist.pz.cur /\ Repeat = hist.pz.rep
    /\ hist.pz.k = 2
         => player.state = "Playing" /\ current = hist.pz.cur /\ Repeat = hist.pz.rep

\* two pauses in a row, the first on a playing engine
C9_Witness ==
    /\ hist.pz.k = 2 /\ last = <<"pause">> /\ player.state = "Playing"

\* C2: when an ended notification is delivered with repeat ON, reconciling it leaves
\* the index as it was and re-issues play for the track at that index: in beta the
\* consumed flag gives the index the callback read and the iteration loads and plays
\* that track; in onefile the callback's restart, made while the main thread waits for
\* a line, leaves the index alone and plays the item at the index.
C2_RepeatReplaysSame ==
    [][ /\ (variant = "beta" /\ pc = "check" /\ State.ended /\ noted.rep)
             => current' = noted.cur
        /\ (variant = "beta" /\ pc = "play" /\ last = ENDED /\ got.rep /\ pc' # "play")
             => /\ current' = got.cur
                /\ Calls(log') = << <<"load", files[got.cur + 1]>>, <<"play", 0>> >>
        /\ (variant = "onefile" /\ cb.pc = "e2r" /\ cb'.pc = "idle" /\ pc = "input")
             => /\ current' = current
                /\ log' # <<>> /\ log'[1].by = "cb"
                /\ current < Len(files)
                /\ player'.media = files[current + 1] ]_vars

\* C3: in beta no line taken from the queue is applied while the ended flag is set
\* and not yet consumed.
C3_PendingBeforeCommand ==
    [][ (variant = "beta" /\ pc = "get" /\ pc' # "get" /\ CMD_QUEUE # <<>>
           /\ Head(CMD_QUEUE) # THREAD_EXIT)
          => ~State.ended ]_vars

\* C4: a step of the end-of-track callback moves no index and makes no engine call;
\* all it writes is the pending signal.
C4_CallbackOnlySignals ==
    [][ (cb.pc # "idle" /\ cb' # cb)
          => /\ current' = current
             /\ State'.current = State.current
             /\ player' = player ]_vars

\* C5: when the callback's Playlist.next has overlapped one next, prev or del of the
\* main thread, the playlist is as after the two calls in one order or the other,
\* and the index is a valid index of it.
C5_RaceSerializable ==
    rc.st = "done"
        => /\ [items |-> files, index |-> current]
                \in { PlNext(PlApply(rc.op, rc.s0)), PlApply(rc.op, PlNext(rc.s0)) }
           /\ files # <<>> => current < Len(files)

InLoop == pc \notin {"start", "fatal", "crashed", "done", "return", "raised"}

\* the lines that end the loop, and the closing of the input stream
Leaving == {<<"exit">>, <<"quit">>, THREAD_EXIT}

\* C11: the command loop is left only on exit / quit or when the input stream closes;
\* no failing engine call and no bad command ends it.
C11_LoopEndsOnlyOnExit ==
    [][ (InLoop /\ ~InLoop') => last' \in Leaving ]_vars

\* the beta script alone, with the scheduling its liveness claims rest on: a main
\* thread that has left main_loop goes on through main()'s finally, whose join waits a
\* second at most.  The input thread and the engine's thread are given no fairness.
BetaInit == Init /\ variant = "beta"
FairSpec == BetaInit /\ [][BetaStep \/ EngineEnd]_vars /\ WF_vars(BetaFinally)

\* C12: in beta, once exit has been handled the run comes to its end whatever the
\* input thread does, with the stop event set and the engine told to stop; a stop
\* that returned leaves the engine stopped.
C12_ShutdownTerminates ==
    /\ (variant = "beta" /\ pc = "return") ~> (pc = "done")
    /\ [](variant = "beta" /\ pc = "done"
            => /\ INPUT_THREAD_STOP
               /\ log # <<>> /\ log[Len(log)].op = "stop"
               /\ log[Len(log)].ok => player.state = "Stopped")

\* exit has been handled and the run is over while the input thread still sits in
\* input()
C12_Witness ==
    /\ variant = "beta" /\ pc = "done" /\ last = <<"exit">>
    /\ inp = "input" /\ INPUT_THREAD_STOP /\ player.state = "Stopped"

\* C13: in cli, pl leaves the index alone when it is still an index of the new list,
\* and moves it to the last slot of the new list otherwise.
C13_ReloadClampsIndex ==
    [][ (variant = "cli" /\ pc = "input" /\ last' = <<"pl">> /\ player' = player)
          => current' = IF current < Len(files') THEN current
                        ELSE Max(0, Len(files') - 1) ]_vars

\* C14: in beta, the index a consumed ended flag leads to follows the repeat mode as
\* it is when the flag is consumed (the index the callback read if ON, the one after
\* it if OFF); and next / prev move the index by one whatever the repeat mode.
C14_RepeatReadAtConsumption ==
    [][ /\ (variant = "beta" /\ pc = "check" /\ State.ended /\ pc' = "play")
             => current' = IF State.repeat THEN noted.cur
                           ELSE (noted.cur + 1) % Len(files)
        /\ (variant = "beta" /\ pc = "get" /\ last' \in NextCmds /\ CMD_QUEUE' # CMD_QUEUE)
             => current' = (current + 1) % Len(files)
        /\ (variant = "beta" /\ pc = "get" /\ last' \in PrevCmds /\ CMD_QUEUE' # CMD_QUEUE)
             => current' = (current - 1) % Len(files) ]_vars

\* a step of a volume or mute handler of beta or cli
VolumeStep ==
    \/ BetaVolumeShow \/ BetaVolStep \/ BetaVolSet \/ BetaMute
    \/ CliVolumeShow \/ CliVolStep \/ CliVolSet \/ CliMute

\* C15: volume, v+, v-, v <n> and m / mute leave the index, the repeat mode and the
\* playlist as they were and make no load, play, pause or stop call: the engine keeps
\* its media and its playback state.
C15_VolumeKeepsPosition ==
    [][ VolumeStep
          => /\ current' = current /\ files' = files
             /\ State'.current = State.current /\ State'.repeat = State.repeat
             /\ repeat' = repeat
             /\ \A i \in 1..Len(log') : log'[i].op \in {"volume", "mute"}
             /\ player'.state = player.state /\ player'.media = player.media ]_vars

\* a mute that the engine took while a track was playing
C15_Witness ==
    /\ last \in {<<"m">>, <<"mute">>} /\ log # <<>> /\ log[Len(log)].op = "mute"
    /\ log[Len(log)].ok /\ player.mute /\ player.state = "Playing"

\* the load and play that followed a next or prev have raised
PlayFailed ==
    /\ last \in NextCmds \cup PrevCmds
    /\ log # <<>> /\ log[Len(log)].op = "play" /\ ~log[Len(log)].ok
    /\ log[Len(log)].by = "main"

\* C16: when the load or play after a next or prev fails, the index stays where the
\* command put it, the engine is left stopped if the stop before it returned, and the
\* command loop goes on.
C16_FailedPlayCommitsIndex ==
    PlayFailed
        => /\ InLoop
           /\ hist.run.kind = "next" => current = hist.run.k % Len(files)
           /\ hist.run.kind = "prev"
                => current = (Len(files) - (hist.run.k % Len(files))) % Len(files)
           /\ (log[1].op = "stop" /\ log[1].ok) => player.state = "Stopped"

\* a step that handles a line no handler knows, or one whose volume or index is no
\* number
BadLineStep ==
    \/ BetaUnknown \/ CliUnknown \/ OneUnknown
    \/ /\ BetaVolSet \/ CliVolSet \/ OneDel \/ OneJump
       /\ Len(last') >= 2 /\ ~IsInt(last'[2])

\* C17: a line that is no command, and a volume or index that is no number, change
\* nothing: the index, the repeat mode, the playlist and the engine (state, media,
\* volume, mute) are after the line as before it, no engine call is made, and the
\* loop goes on.
C17_BadLineChangesNothing ==
    [][ BadLineStep
          => /\ current' = current /\ files' = files
             /\ State'.current = State.current /\ State'.repeat = State.repeat
             /\ repeat' = repeat
             /\ player' = player /\ log' = <<>>
             /\ InLoop' ]_vars

\* a jump to no number, typed with the third track paused
C17_Witness ==
    /\ variant = "onefile" /\ last = <<"jump", "x">> /\ pc = "input" /\ log = <<>>
    /\ current = 2 /\ player.state = "Paused" /\ player.media = files[3]

\* a step of play, next, prev or jump in the one-file script
TransportStep == OnePlay \/ OneStepCall \/ OneJump

\* C18: in the one-file script, with an empty playlist, play, next, prev and jump
\* leave the index and the playlist as they were and make no load and no play call.
C18_EmptyPlaylistNoOp ==
    [][ (variant = "onefile" /\ files = <<>> /\ TransportStep)
          => /\ current' = current /\ files' = files
             /\ \A i \in 1..Len(log') : log'[i].op \notin {"load", "play"} ]_vars

\* C19: no play call is made while an earlier one is in flight, that is, unless a
\* stop or pause call has been made, or a track has ended, since the earlier one.
C19_OnePlayInFlight == hist.np # "two"

\* the line handled is jump <idx> with idx a valid index of the playlist as it was
JumpInRange ==
    /\ Len(last') >= 2 /\ IsInt(last'[2])
    /\ 0 <= IntOf[last'[2]] /\ IntOf[last'[2]] < Len(files)

\* C20: in the one-file script, jump <idx> with a valid index makes idx the index
\* and, when the engine's calls return, loads and plays the track there, whatever the
\* engine was doing (playing, paused, stopped, ended); with any other index it changes
\* nothing and makes no call.
C20_JumpPlays ==
    [][ OneJump
          => /\ files' = files /\ repeat' = repeat
             /\ JumpInRange
                  => /\ current' = IntOf[last'[2]]
                     /\ pc' = "input"
                          => /\ player'.media = files[current' + 1]
                             /\ player'.state = "Playing"
                             /\ Calls(log') = << <<"load", files[current' + 1]>>,
                                                 <<"play", 0>> >>
             /\ ~JumpInRange
                  => current' = current /\ player' = player /\ log' = <<>>
                     /\ pc' = "input" ]_vars

\* a jump to the third track has been handled, and the track plays
C20_Witness ==
    /\ variant = "onefile" /\ last = <<"jump", "2">> /\ pc = "input"
    /\ Len(files) = 3 /\ current = 2
    /\ player.state = "Playing" /\ player.media = files[3]
    /\ Calls(log) = << <<"load", files[3]>>, <<"play", 0>> >>

\* a step that handles a line whose first word is repeat (or r): the toggle of beta
\* and the one-file script, repeat on|off of the one-file script, and `repeat on`
\* as beta takes it, a line it compares whole with "repeat" and "r"
RepeatStep ==
    \/ BetaRepeat \/ OneRepeat
    \/ BetaUnknown /\ last'[1] = "repeat"

\* C21: repeat without an argument toggles the repeat mode (so two in a row restore
\* it), repeat on / repeat off set it ON / OFF whatever it was, and no form of the
\* command moves the index, changes the playlist or makes an engine call.
C21_RepeatSets ==
    [][ RepeatStep
          => /\ Repeat' = IF Len(last') = 1 THEN ~Repeat
                          ELSE IF last'[2] = "on" THEN TRUE
                          ELSE IF last'[2] = "off" THEN FALSE
                          ELSE Repeat
             /\ current' = current /\ State'.current = State.current
             /\ files' = files
             /\ player' = player /\ log' = <<>> ]_vars

\* C22: a run that started with a playlist of at least one track never has its
\* command loop running on an empty playlist, whatever is typed (pl and del included).
C22_PlaylistNeverEmpty ==
    (InLoop /\ scanned.matches >= 1) => files # <<>>

\* cli.py alone, with the scheduling its main loop has: the loop runs on by itself
\* from the top of the outer loop through play_track to input(), and there it waits
\* for the user, for ever if nothing is typed.  No step that needs a typed line is
\* given fairness, and neither is the engine.
CliInit == Init /\ variant = "cli"
CliFairSpec == CliInit /\ [][CliStep \/ EngineEnd]_vars /\ WF_vars(CliPlayTrack)

\* the end of a track waits to be followed up: beta's ended flag is set; elsewhere the
\* engine sits at the end of its track
Pending == IF variant = "beta" THEN State.ended ELSE player.state = "Ended"

\* C23: while the command loop runs, the end of a track is followed up in the end,
\* also when the user types nothing, because the loop does not wait for a line for
\* ever: beta's ended flag, once set, is consumed, and the play_track for the index it
\* led to is called; elsewhere the engine does not stay at the end of its track.
C23_EndedReconciled ==
    /\ (InLoop /\ Pending) ~> (~InLoop \/ ~Pending)
    /\ (variant = "beta" /\ last = ENDED /\ pc = "play") ~> (pc # "play")

\* a step that handles exit or quit
ExitStep == BetaExit \/ CliExit \/ OneQuit
\* a step that handles the closing of the input stream, or an interrupt at input()
ClosedStep == BetaThreadExit \/ CliEOF \/ OneEOF

\* what a step of the shutdown path does: one stop call and no other, the engine
\* stopped if the call returned, the index and the playlist left alone, and the loop
\* left (in the one-file script a stop that raises ends the program there and then)
Shutdown ==
    /\ Calls(log') = << <<"stop", 0>> >>
    /\ player' = IF log'[1].ok THEN P_stop(player) ELSE player
    /\ current' = current /\ files' = files
    /\ pc' = IF variant = "beta" THEN "return"
             ELSE IF variant = "onefile" /\ ~log'[1].ok THEN "crashed"
             ELSE "done"

\* C24: exit, quit and the closing of the input stream all take the shutdown path, and
\* a run that has come to its normal end has handled one of them and made a stop call
\* last of all.
C24_StopBeforeReturn ==
    /\ [][ (ExitStep \/ ClosedStep) => Shutdown ]_vars
    /\ [](pc = "done"
            => /\ last \in Leaving
               /\ log # <<>> /\ log[Len(log)].op = "stop")

\* the input stream of cli.py has closed with the first of two tracks loaded: the
\* engine has been stopped and the run is over
C24_Witness ==
    /\ variant = "cli" /\ pc = "done" /\ last = THREAD_EXIT
    /\ Calls(log) = << <<"stop", 0>> >> /\ log[1].ok /\ player.state = "Stopped"
    /\ Len(files) = 2 /\ player.media = files[1]

\* the steps that may move the index: next, prev (in the one-file script the store of
\* Playlist.next / prev), jump, and the advance at the end of a track (beta's main loop
\* consuming the ended flag, the one-file callback's Playlist.next)
IndexStep ==
    \/ BetaNext \/ BetaPrev \/ BetaCheckEnded
    \/ CliNext \/ CliPrev
    \/ OneStepStore \/ OneJump \/ OnEndNextStore

\* C25: the index is changed by next, prev, jump and the advance at the end of a track
\* and by nothing else, and the repeat mode by the repeat command and nothing else.
C25_IndexAndRepeatFrame ==
    [][ /\ (current' # current \/ State'.current # State.current) => IndexStep
        /\ Repeat' # Repeat => RepeatStep ]_vars

\* a step that runs the load and play of the track a next or prev has led to
AutoPlayStep ==
    /\ BetaPlayTrack \/ CliPlayTrack \/ OneStepPlay
    /\ last \in NextCmds \cup PrevCmds
    /\ current < Len(files)

\* C26: next and prev call stop and move the index; the load and play of the track at
\* the new index follow, and from the moment the line is taken to the end of that
\* play the engine is told just this: stop, load of that track, play.
C26_StopThenAutoPlay ==
    [][ /\ (BetaNext \/ BetaPrev \/ CliNext \/ CliPrev)
             => Calls(log') = << <<"stop", 0>> >> /\ pc' = "play"
        /\ AutoPlayStep
             => Calls(log') = << <<"stop", 0>>, <<"load", files[current + 1]>>,
                                 <<"play", 0>> >> ]_vars

\* ------------------------------------------------- the Playlist class alone
\* the lists a Playlist may be built from: paths in any order, repeats included
Lists == UNION { [1..n -> 1..MaxTracks] : n \in 0..MaxTracks }

\* Playlist(items): a copy of the list, the index 0
PlaylistInit ==
    /\ variant = "onefile"
    /\ alphabet = {}
    /\ files \in Lists
    /\ current = 0
    /\ AtRest

\* the Playlist as it is
Self == [items |-> files, index |-> current]

\* a method of the Playlist has been called on one thread and has left it as s; rc
\* keeps the Playlist as it was and the call made
Called(kind, arg, s) ==
    /\ files' = s.items
    /\ current' = s.index
    /\ rc' = [st |-> "idle", s0 |-> Self, op |-> [kind |-> kind, arg |-> arg]]
    /\ UNCHANGED <<conf, repeat, State, CMD_QUEUE, INPUT_THREAD_STOP, inp, pc, cb, mt,
                   player, log, last, notes, scanned, hist>>

CallAdd ==
    /\ Len(files) < MaxTracks
    /\ \E path \in 1..MaxTracks : Called("add", path, PlAdd(Self, path))
CallRemove  == \E idx \in (0 - 1)..MaxTracks : Called("remove", idx, PlRemove(Self, idx))
CallNext    == Called("next", 0, PlNext(Self))
CallPrev    == Called("prev", 0, PlPrev(Self))
CallJump    == \E idx \in (0 - 1)..MaxTracks : Called("jump", idx, PlJump(Self, idx))
CallShuffle == \E s \in PlShuffle(Self) : Called("shuffle", 0, s)
CallClear   == Called("clear", 0, PlClear(Self))

PlaylistNext ==
    \/ CallAdd \/ CallRemove \/ CallNext \/ CallPrev \/ CallJump \/ CallShuffle
    \/ CallClear

PlaylistSpec == PlaylistInit /\ [][PlaylistNext]_vars

\* C27: after any calls of add, remove, next, prev, jump, shuffle and clear made on one
\* thread, the index of a non-empty Playlist is a position of its list, and an empty
\* Playlist has the index 0 and no current item.
C27_IndexValid ==
    /\ files # <<>> => (0 <= current /\ current < Len(files))
    /\ files = <<>> => (current = 0 /\ PlCurrent(Self) = NoMedia)

\* the first of three items has been removed with the index on the last: the index has
\* been brought back to the last position of the two that are left
C27_Witness ==
    /\ rc.op = [kind |-> "remove", arg |-> 0]
    /\ Len(rc.s0.items) = 3 /\ rc.s0.index = 2
    /\ Len(files) = 2 /\ current = 1

\* C28: every volume handed to the engine lies in 0..100, and the volume v+ (v-) hands
\* over is min(100, v + 10) (max(0, v - 10)) for the volume v the engine holds when
\* the line is handled.
C28_VolumeStepsFromEngine ==
    [][ /\ \A i \in 1..Len(log') :
             log'[i].op = "volume" => (0 <= log'[i].arg /\ log'[i].arg <= 100)
        /\ ((BetaVolStep \/ CliVolStep) /\ log' # <<>>)
             => log'[Len(log')].arg = IF last' = <<"v+">> THEN Min(100, player.volume + 10)
                                      ELSE Max(0, player.volume - 10) ]_vars

\* a step that handles play, pause, stop, a volume line or mute
EngineLineStep ==
    \/ BetaPlay \/ BetaPause \/ BetaStop
    \/ CliPlay \/ CliPause \/ CliStop
    \/ OnePlay \/ OnePause \/ OneStop
    \/ VolumeStep

\* C29: when an engine call made for play, pause, stop, a volume line or mute raises,
\* the index, the repeat mode and the playlist stay as they were and the command loop
\* goes on.
C29_EngineErrorKeepsSession ==
    [][ (EngineLineStep /\ \E i \in 1..Len(log') : ~log'[i].ok)
          => /\ current' = current /\ State'.current = State.current
             /\ Repeat' = Repeat
             /\ files' = files
             /\ InLoop' ]_vars

\* ------------------------------------------- beta with two lines in the queue
\* MF_Player_Beta.py with a user who types next and repeat and closes the input, and
\* types fast enough for one more line than elsewhere to wait in the queue
QueueInit ==
    /\ variant = "beta"
    /\ alphabet = {<<"next">>, <<"repeat">>, EOF}
    /\ files = <<>>
    /\ current = 0
    /\ AtRest

QueueNext ==
    \/ BetaMain \/ BetaPlayTrack \/ BetaCheckEnded \/ BetaTimeout
    \/ BetaThreadExit \/ BetaRepeat \/ BetaNext \/ BetaFinally
    \/ InputLineUpTo(MaxQueue + 1) \/ InputEOF \/ InputFinally
    \/ EngineEnd \/ OnTrackEndRead \/ OnTrackEndTarget \/ OnTrackEndFlag

QueueSpec == QueueInit /\ [][QueueNext]_vars

\* what taking the line c from the queue does: the sentinel ends the loop, next and
\* prev move the index by one and break out to play, repeat flips the repeat mode, and
\* no line does the work of another
AppliedOnce(c) ==
    /\ last' = c
    /\ c = THREAD_EXIT => pc' = "return"
    /\ c \in NextCmds
         => pc' = "play" /\ current' = (current + 1) % Len(files)
    /\ c \in PrevCmds
         => pc' = "play" /\ current' = (current - 1) % Len(files)
    /\ c \in {<<"repeat">>, <<"r">>}
         => pc' = "check" /\ State'.repeat = ~State.repeat
    /\ c \notin NextCmds \cup PrevCmds => current' = current
    /\ c \notin {<<"repeat">>, <<"r">>} => State'.repeat = State.repeat

\* C30: the queue is touched in two ways only.  A line (or the sentinel) is put at its
\* tail; or the main loop, waiting at its get, takes the line at its head, applies that
\* line and goes on to the top of a loop, so that it takes no second line in the same
\* iteration.  Nothing else changes the queue: no line waiting in it is dropped or
\* overtaken when a next or the end of a track breaks out to play, and the sentinel is
\* taken after every line put before it.
C30_QueueFifo ==
    [][ \/ CMD_QUEUE' = CMD_QUEUE
        \/ /\ pc' = pc \/ pc \in {"return", "raised"}
           /\ \E c \in (alphabet \ {EOF}) \cup {THREAD_EXIT} :
                CMD_QUEUE' = Append(CMD_QUEUE, c)
        \/ /\ pc = "get" /\ pc' # "get"
           /\ CMD_QUEUE # <<>> /\ CMD_QUEUE' = Tail(CMD_QUEUE)
           /\ AppliedOnce(Head(CMD_QUEUE)) ]_vars

\* a next has broken out to play the second track while a repeat typed after it and
\* the sentinel put after that wait in the queue
C30_Witness ==
    /\ variant = "beta" /\ pc = "play" /\ last = <<"next">> /\ current = 1
    /\ CMD_QUEUE = << <<"repeat">>, THREAD_EXIT >>

\* ---- the index a consumed notification starts from
\* main_loop consumes the ended flag: STATE["ended"] = False, current from next_index
ConsumeStep == variant = "beta" /\ pc = "check" /\ State.ended /\ pc' = "play"

\* C31: in beta, when the ended flag is consumed and repeat is OFF (when the callback
\* computed its target and when the flag is consumed), the new index is (c + 1) mod N
\* for c the index just before the consumption: a next / prev applied since the
\* notification is not overridden by a target computed from the older index.
C31_ConsumeAdvancesFromCurrent ==
    [][ (ConsumeStep /\ ~State.repeat /\ ~noted.rep)
          => /\ current' = (current + 1) % Len(files)
             /\ State'.current = current' ]_vars

\* ---- the track playing and the track marked current
\* the main thread waits for a line, and no end-of-track callback is under way
AtPrompt ==
    /\ \/ variant = "beta" /\ pc \in {"check", "get"}
       \/ variant \in {"cli", "onefile"} /\ pc = "input"
    /\ cb.pc = "idle"

\* C32: whenever the main loop waits for a command with the engine playing, the media
\* loaded in the engine is the playlist item at the current index, after any sequence
\* of commands (jump, del, shuffle, reload among them).
C32_PlayingIsCurrent ==
    (AtPrompt /\ player.state = "Playing")
        => /\ current < Len(files)
           /\ player.media = files[current + 1]

\* ---- what remove and shuffle keep
\* the call just made was remove(idx) with idx a position of the list other than the index
RemovedOther ==
    /\ rc.op.kind = "remove"
    /\ 0 <= rc.op.arg /\ rc.op.arg < Len(rc.s0.items)
    /\ rc.op.arg # rc.s0.index

\* C33: Playlist.remove(idx) with idx a position of the list other than the current
\* index keeps the current track: current() returns after the removal what it
\* returned before it.
C33_RemoveKeepsCurrent ==
    RemovedOther => PlCurrent(Self) = PlCurrent(rc.s0)

\* how many times x stands in items
Times(items, x) == Cardinality({i \in 1..Len(items) : items[i] = x})

\* C34: Playlist.shuffle keeps the multiset of the items and the current track: after
\* it current() returns what it returned before, the index being a position of that
\* track; on an empty Playlist it changes nothing.
C34_ShuffleKeeps ==
    rc.op.kind = "shuffle"
        => /\ Len(files) = Len(rc.s0.items)
           /\ \A x \in 1..MaxTracks : Times(files, x) = Times(rc.s0.items, x)
           /\ PlCurrent(Self) = PlCurrent(rc.s0)
           /\ files # <<>> => (0 <= current /\ current < Len(files)
                               /\ files[current + 1] = PlCurrent(rc.s0))
           /\ rc.s0.items = <<>> => Self = rc.s0

\* three different tracks with the index on the second have been shuffled into another
\* order: the index has followed the track to the last position
C34_Witness ==
    /\ rc.op.kind = "shuffle"
    /\ rc.s0 = [items |-> <<1, 2, 3>>, index |-> 1]
    /\ files = <<3, 1, 2>> /\ current = 2

\* ---- the index the callback reads
\* main_loop is at the test of the ended flag or at queue.get
BetaWaiting == variant = "beta" /\ pc \in {"check", "get"}

\* C35: in beta, whenever main_loop is waiting for a command or checking the ended
\* flag, STATE["current"] equals the local `current`, and both are positions of the
\* playlist.
C35_StateMirrorsCurrent ==
    BetaWaiting
        => /\ State.current = current
           /\ 0 <= current /\ current < Len(files)

\* prev has been typed on the first of three tracks and the last one started: the
\* local index and STATE["current"] are both on the last track
C35_Witness ==
    /\ BetaWaiting /\ pc = "check" /\ last \in PrevCmds
    /\ Len(files) = 3 /\ current = 2 /\ State.current = 2
    /\ player.state = "Playing" /\ player.media = files[3]

====
